---------------------------- MODULE Spec2Model ----------------------------
(***************************************************************************)
(* Model of knyst's Resources buffer pool (src/src/lib.rs) and of the      *)
(* AudioBackend bridges JackBackend and CpalBackend                        *)
(* (src/src/audio_backend.rs).                                             *)
(*                                                                         *)
(* Two specifications share the variables:                                 *)
(*   SpecResources - one Resources value and the calls made on it;         *)
(*   SpecBackend   - one JackBackend and one CpalBackend, the control      *)
(*                   calls made on them and the audio callbacks.           *)
(* A panic ends the program: once `panicked` is set no action is enabled.  *)
(***************************************************************************)
EXTENDS Integers, Sequences, FiniteSets, TLC

(***************************************************************************)
(* Bounds of the model.                                                    *)
(***************************************************************************)
\* number of buffer slots (vec![None; 1000] in the source, scaled down)
NumSlots == 3
\* sample rates (of a buffer, of a request) range over 1..MaxRate
MaxRate == 2
\* output channels of a graph and of the device range over 1..MaxChannels
MaxChannels == 2
\* inputs of a graph range over 0..MaxInputs
MaxInputs == 1
\* block sizes and the JACK period range over 1..MaxBlock
MaxBlock == 2
\* Node::process is followed for at most MaxCalls calls per started backend
MaxCalls == 3
\* a CPAL callback is handed an output slice of 1..MaxHwLen samples
MaxHwLen == 3
\* the user data pushed under a key ranges over 1..MaxData
MaxData == 2

VARIABLES
    \* ---- Resources (lib.rs) ----
    buffers,        \* Resources::buffers : Vec<Option<Buffer>>, indexed from 0
    user_data,      \* Resources::user_data : HashMap<String, Box<dyn AnyData>>
    lookup_tables,  \* Resources::lookup_tables : Vec<Vec<Sample>>, indexed from 1 here
    resources_sample_rate, \* Resources::sample_rate : Sample
    freq_to_phase_inc,     \* Resources::freq_to_phase_inc : Sample
    \* ---- observation of the calls made on Resources ----
    res_call,       \* the last call on Resources: its name, arguments, result
    prev_call,      \* the call on Resources before the last one
    pre_buffers,    \* Resources::buffers as it was when the last call began
    live,           \* index -> the buffer a successful push_buffer returned
                    \*          that index for, until remove_buffer is called on it
    pushed,         \* key -> the data of the latest push_user_data call for the key
    \* ---- the backend the program constructed (audio_backend.rs) ----
    backend,        \* "jack": JackBackend::new, "cpal": CpalBackend::new
    be_sample_rate, \* JackBackend::sample_rate / CpalBackend::sample_rate
    client,         \* JackBackend::client : Option<JackClient>
    jack_buffer_size, \* client.buffer_size(): frames of one JACK period
    jack_process,   \* the JackProcess the active client owns
    stream,         \* CpalBackend::stream : Option<cpal::Stream>
    channels,       \* CpalBackend::config.channels()
    cpal_closure,   \* what the output callback of run() captured
    \* ---- observation of the calls made on the backend ----
    be_call,        \* the last control call: its name, arguments, result
    stopped_ok,     \* stop has returned Ok on this backend
    \* ---- the program ----
    panicked        \* a panic has unwound the program

resVars == <<buffers, user_data, lookup_tables, resources_sample_rate, freq_to_phase_inc>>
\* the fields of Resources that Resources::new computes from sample_rate
rateVars == <<resources_sample_rate, freq_to_phase_inc>>
resObs  == <<res_call, prev_call, pre_buffers, live, pushed>>
jackVars == <<client, jack_buffer_size, jack_process>>
cpalVars == <<stream, channels, cpal_closure>>
beVars == <<backend, be_sample_rate, client, jack_buffer_size, jack_process, stream, channels,
            cpal_closure, be_call, stopped_ok>>

(***************************************************************************)
(* Values.                                                                 *)
(***************************************************************************)
\* Option<Buffer>::None
None == [buf_rate |-> 0]
\* the Buffer values: a buffer is told from another by its native sample rate
\* (no operation of Resources reads the sample data)
Buffers == [buf_rate : 1..MaxRate]
OptBuffer == Buffers \cup {None}
SampleRates == 1..MaxRate
\* the String keys of the user data
Keys == {"k1", "k2"}
\* the Box<dyn AnyData> values, told apart by a number
Data == 1..MaxData
\* no data: the key is not in the map, Option::None of get_user_data
NoData == 0

\* the indices of the slot array, 0 .. buffers.len() - 1
Slots == 0..(NumSlots - 1)
\* the BufferIndex values a caller passes: every slot and one past the end
BufferIndices == 0..NumSlots

\* f64 values are exact fractions <<numerator, denominator>> in lowest terms
RECURSIVE Gcd(_, _)
Gcd(a, b) == IF b = 0 THEN a ELSE Gcd(b, a % b)
F64(n, d) == <<n \div Gcd(n, d), d \div Gcd(n, d)>>
\* the literal 1.0
One == <<1, 1>>
\* a value of f64 that is no result
NoF64 == <<0, 1>>

\* results of the calls on Resources
NoRet == [tag |-> "none", index |-> 0, buf |-> None, scale |-> NoF64,
     data |-> NoData]
RetOk(i) == [tag |-> "Ok", index |-> i, buf |-> None, scale |-> NoF64,
     data |-> NoData]
RetErr(b) == [tag |-> "Err", index |-> 0, buf |-> b, scale |-> NoF64,
     data |-> NoData]
RetSome(b) == [tag |-> "Some", index |-> 0, buf |-> b, scale |-> NoF64,
     data |-> NoData]
RetNone == [tag |-> "None", index |-> 0, buf |-> None, scale |-> NoF64,
     data |-> NoData]
RetF64(x) == [tag |-> "f64", index |-> 0, buf |-> None, scale |-> x,
     data |-> NoData]
\* Some(data) of get_user_data, () of push_user_data
RetSomeData(d) == [tag |-> "Some", index |-> 0, buf |-> None, scale |-> NoF64,
                   data |-> d]
RetUnit == [tag |-> "unit", index |-> 0, buf |-> None, scale |-> NoF64,
            data |-> NoData]
RetPanic == [tag |-> "panic", index |-> 0, buf |-> None, scale |-> NoF64,
     data |-> NoData]

(***************************************************************************)
(* Resources (lib.rs)                                                      *)
(***************************************************************************)
\* Resources::new: buffers: vec![None; 1000]
new_buffers == [i \in Slots |-> None]

\* enum StandardWt, #[repr(u32)]: a variant without a discriminant takes the
\* one before it plus one
FastSine == 0
FastSineDiff == FastSine + 1
Last == FastSineDiff + 1

\* the loop of Resources::new with the arms of its match exchanged
RECURSIVE push_standard_tables_swapped(_, _)
push_standard_tables_swapped(i, tables) ==
    IF i >= Last
    THEN tables
    ELSE push_standard_tables_swapped(i + 1,
             IF i = FastSine THEN Append(tables, "fast_sine_diff_table")
             ELSE IF i = FastSineDiff THEN Append(tables, "fast_sine_table")
             ELSE tables)

\* the loop `for i in 0..num_standard_wavetables` of Resources::new from its
\* iteration i on: the match pushes the table of the variant whose value is i
RECURSIVE push_standard_tables(_, _)
push_standard_tables(i, tables) ==
    IF i >= Last
    THEN tables
    ELSE push_standard_tables(i + 1,
             IF i = FastSine THEN Append(tables, "fast_sine_table")
             ELSE IF i = FastSineDiff THEN Append(tables, "fast_sine_diff_table")
             ELSE tables)

\* Resources::new: lookup_tables starts as vec![] and is filled by the loop
new_lookup_tables == push_standard_tables(0, <<>>)

\* pub const TABLE_POWER, TABLE_SIZE, FRACTIONAL_PART
TABLE_POWER == 13
TABLE_SIZE == 2 ^ TABLE_POWER
FRACTIONAL_PART == 65536
\* the bits of the significand of Sample = f32
F32Mantissa == 24

\* n / m rounded to the nearest integer, ties to even
RoundHalfEven(n, m) ==
    LET q == n \div m
        r == n % m
    IN IF 2 * r > m \/ (2 * r = m /\ q % 2 = 1) THEN q + 1 ELSE q

\* the unit in the last place of f32 at n / d >= 2^(F32Mantissa - 1): the
\* largest power of two u >= `u` with u * 2^(F32Mantissa - 1) <= n / d
RECURSIVE UlpUp(_, _, _)
UlpUp(n, d, u) ==
    IF 2 * u * (2 ^ (F32Mantissa - 1)) * d <= n THEN UlpUp(n, d, 2 * u) ELSE u

\* for n / d < 2^(F32Mantissa - 1) the unit is 1 / w: the smallest power of
\* two w >= `w` with n / d * w >= 2^(F32Mantissa - 1)
RECURSIVE UlpDown(_, _, _)
UlpDown(n, d, w) ==
    IF n * w < (2 ^ (F32Mantissa - 1)) * d THEN UlpDown(n, d, 2 * w) ELSE w

\* `x as Sample`: the positive value x rounded to the nearest f32
AsSample(x) ==
    LET n == x[1]
        d == x[2]
    IN IF n = 0 THEN x
       ELSE IF n >= (2 ^ (F32Mantissa - 1)) * d
            THEN LET u == UlpUp(n, d, 1) IN F64(RoundHalfEven(n, d * u) * u, 1)
            ELSE LET w == UlpDown(n, d, 1) IN F64(RoundHalfEven(n * w, d), w)

\* Resources::new: freq_to_phase_inc =
\* (TABLE_SIZE * FRACTIONAL_PART * (1.0 / sample_rate)) as Sample
new_freq_to_phase_inc(rate) == AsSample(F64(TABLE_SIZE * FRACTIONAL_PART, rate))

\* Resources::new: user_data: HashMap::with_capacity(1000), no key in it
new_user_data == [k \in Keys |-> NoData]

\* an insert that keeps the value a key already has
push_user_data_keep(map, key, data) ==
    IF map[key] = NoData THEN [map EXCEPT ![key] = data] ELSE map

\* Resources::push_user_data: HashMap::insert, the old value is dropped
push_user_data(map, key, data) == [map EXCEPT ![key] = data]

\* Resources::get_user_data: HashMap::get_mut
get_user_data(map, key) ==
    IF map[key] = NoData THEN RetNone ELSE RetSomeData(map[key])

\* the scan without the is_none test: the first index is taken as free
find_free_index_occupied(bufs, i) ==
    IF i >= NumSlots
    THEN [found_free_index |-> FALSE, index |-> 0]
    ELSE [found_free_index |-> TRUE, index |-> i]

\* the scan without its break: the last free index wins
find_free_index_last(bufs, i) ==
    LET free == {j \in i..(NumSlots - 1) : bufs[j] = None} IN
    IF free = {}
    THEN [found_free_index |-> FALSE, index |-> 0]
    ELSE [found_free_index |-> TRUE, index |-> CHOOSE j \in free : \A k \in free : k <= j]

\* the scan of push_buffer: the first i in 0..len with buffers[i].is_none()
RECURSIVE find_free_index(_, _)
find_free_index(bufs, i) ==
    IF i >= NumSlots
    THEN [found_free_index |-> FALSE, index |-> 0]
    ELSE IF bufs[i] = None
         THEN [found_free_index |-> TRUE, index |-> i]
         ELSE find_free_index(bufs, i + 1)

\* push_buffer without the found_free_index test: a full pool replaces slot `index`
push_buffer_overwrite(bufs, buf) ==
    LET scan == find_free_index(bufs, 0) IN
    [buffers |-> [bufs EXCEPT ![scan.index] = buf], ret |-> RetOk(scan.index)]

\* push_buffer on a Vec that grows: a full pool gets one more slot
push_buffer_grow(bufs, buf) ==
    LET scan == find_free_index(bufs, 0) IN
    IF scan.found_free_index
    THEN [buffers |-> [bufs EXCEPT ![scan.index] = buf], ret |-> RetOk(scan.index)]
    ELSE [buffers |-> [i \in 0..NumSlots |-> IF i \in DOMAIN bufs THEN bufs[i] ELSE buf],
          ret |-> RetOk(NumSlots)]

\* Resources::push_buffer: the slot array after the call and the result
push_buffer(bufs, buf) ==
    LET scan == find_free_index(bufs, 0) IN
    IF scan.found_free_index
    THEN [buffers |-> [bufs EXCEPT ![scan.index] = buf], ret |-> RetOk(scan.index)]
    ELSE [buffers |-> bufs, ret |-> RetErr(buf)]

\* Buffer::buf_rate_scale: the buffer's native rate over the requested rate
Buffer_buf_rate_scale(buf, sample_rate) == F64(buf.buf_rate, sample_rate)

\* buf_rate_scale scaling the default by the requested rate
buf_rate_scale_default(bufs, index, sample_rate) ==
    IF index \notin DOMAIN bufs
    THEN RetPanic
    ELSE IF bufs[index] # None
         THEN RetF64(Buffer_buf_rate_scale(bufs[index], sample_rate))
         ELSE RetF64(F64(1, sample_rate))

\* Resources::buf_rate_scale; indexing outside the Vec panics
buf_rate_scale(bufs, index, sample_rate) ==
    IF index \notin DOMAIN bufs
    THEN RetPanic
    ELSE IF bufs[index] # None
         THEN RetF64(Buffer_buf_rate_scale(bufs[index], sample_rate))
         ELSE RetF64(One)

\* remove_buffer returning a copy and leaving the slot populated
remove_buffer_keep(bufs, index) ==
    IF index \notin DOMAIN bufs
    THEN [buffers |-> bufs, ret |-> RetPanic]
    ELSE IF bufs[index] # None
         THEN [buffers |-> bufs, ret |-> RetSome(bufs[index])]
         ELSE [buffers |-> bufs, ret |-> RetNone]

\* remove_buffer without the presence test: take().expect() on an empty slot
remove_buffer_expect(bufs, index) ==
    IF index \notin DOMAIN bufs
    THEN [buffers |-> bufs, ret |-> RetPanic]
    ELSE IF bufs[index] # None
         THEN [buffers |-> [bufs EXCEPT ![index] = None], ret |-> RetSome(bufs[index])]
         ELSE [buffers |-> bufs, ret |-> RetPanic]

\* remove_buffer emptying the whole pool
remove_buffer_drain(bufs, index) ==
    IF index \notin DOMAIN bufs
    THEN [buffers |-> bufs, ret |-> RetPanic]
    ELSE IF bufs[index] # None
         THEN [buffers |-> [i \in DOMAIN bufs |-> None], ret |-> RetSome(bufs[index])]
         ELSE [buffers |-> bufs, ret |-> RetNone]

\* Resources::remove_buffer; indexing outside the Vec panics
remove_buffer(bufs, index) ==
    IF index \notin DOMAIN bufs
    THEN [buffers |-> bufs, ret |-> RetPanic]
    ELSE LET dealloc == bufs[index] # None IN
         IF dealloc
         THEN [buffers |-> [bufs EXCEPT ![index] = None], ret |-> RetSome(bufs[index])]
         ELSE [buffers |-> bufs, ret |-> RetNone]

ResCall(op, index, buf, sample_rate, ret) ==
    [op |-> op, index |-> index, buf |-> buf, sample_rate |-> sample_rate, ret |-> ret,
     key |-> "", data |-> NoData]
\* a call of push_user_data or get_user_data
UserDataCall(op, key, data, ret) ==
    [op |-> op, index |-> 0, buf |-> None, sample_rate |-> 0, ret |-> ret,
     key |-> key, data |-> data]

\* a caller calls push_buffer(buf)
PushBuffer ==
    /\ ~panicked
    /\ \E buf \in Buffers :
        LET r == push_buffer(buffers, buf) IN
        /\ buffers' = r.buffers
        /\ res_call' = ResCall("push_buffer", 0, buf, 0, r.ret)
        /\ prev_call' = res_call
        /\ pre_buffers' = buffers
        /\ live' = IF r.ret.tag = "Ok"
                   THEN [live EXCEPT ![r.ret.index] = buf]
                   ELSE live
        /\ UNCHANGED <<user_data, lookup_tables, rateVars, pushed, panicked, beVars>>

\* a caller calls remove_buffer(index)
RemoveBuffer ==
    /\ ~panicked
    /\ \E index \in BufferIndices :
        LET r == remove_buffer(buffers, index) IN
        /\ buffers' = r.buffers
        /\ res_call' = ResCall("remove_buffer", index, None, 0, r.ret)
        /\ prev_call' = res_call
        /\ pre_buffers' = buffers
        /\ live' = IF index \in Slots THEN [live EXCEPT ![index] = None] ELSE live
        /\ panicked' = (r.ret.tag = "panic")
        /\ UNCHANGED <<user_data, lookup_tables, rateVars, pushed, beVars>>

\* a caller calls buf_rate_scale(index, sample_rate), a &self method
BufRateScale ==
    /\ ~panicked
    /\ \E index \in BufferIndices, sample_rate \in SampleRates :
        LET r == buf_rate_scale(buffers, index, sample_rate) IN
        /\ res_call' = ResCall("buf_rate_scale", index, None, sample_rate, r)
        /\ prev_call' = res_call
        /\ pre_buffers' = buffers
        /\ panicked' = (r.tag = "panic")
        /\ UNCHANGED <<buffers, user_data, lookup_tables, rateVars, live, pushed, beVars>>

\* a caller calls push_user_data(key, data)
PushUserData ==
    /\ ~panicked
    /\ \E key \in Keys, data \in Data :
        /\ user_data' = push_user_data(user_data, key, data)
        /\ res_call' = UserDataCall("push_user_data", key, data, RetUnit)
        /\ prev_call' = res_call
        /\ pre_buffers' = buffers
        /\ pushed' = [pushed EXCEPT ![key] = data]
        /\ UNCHANGED <<buffers, lookup_tables, rateVars, live, panicked, beVars>>

\* a caller calls get_user_data(key); the &mut it returns is not written through
GetUserData ==
    /\ ~panicked
    /\ \E key \in Keys :
        /\ res_call' = UserDataCall("get_user_data", key, NoData,
                                    get_user_data(user_data, key))
        /\ prev_call' = res_call
        /\ pre_buffers' = buffers
        /\ UNCHANGED <<buffers, user_data, lookup_tables, rateVars, live, pushed, panicked,
                       beVars>>

(***************************************************************************)
(* AudioBackend (audio_backend.rs)                                         *)
(***************************************************************************)
\* a graph whose to_node() returns Err (and the graph of a call that takes none)
NoGraph == [to_node_ok |-> FALSE, num_inputs |-> 0, num_outputs |-> 0, block_size |-> 0]
\* what start_processing is handed: whether graph.to_node() returns Ok, the
\* shape of the Node it returns, and graph.block_size()
Graphs == [to_node_ok : {TRUE}, num_inputs : 0..MaxInputs,
           num_outputs : 1..MaxChannels, block_size : 1..MaxBlock]
          \cup {NoGraph}

\* the outcome of the driver calls one control call makes: all succeed, the
\* setup call fails (register_port, build_output_stream), or the call that
\* switches the audio on or off fails (activate_async, play, deactivate)
Drivers == {"ok", "setup_fails", "run_fails"}
DriverOk(d) == d = "ok"

\* one block of Node output: the process call that made it and the input it read
NoBlock == [call |-> 0, input |-> 0]
Block(call, input) == [call |-> call, input |-> input]

\* struct JackProcess; no client is active
NoJackProcess ==
    [main_node |-> NoGraph, input_buffers |-> 0, process_calls |-> 0,
     callbacks |-> 0, output_buffers |-> NoBlock, out_ports |-> NoBlock,
     control |-> "none"]
\* struct JackProcess as start_processing builds it: input_buffers zeroed
NewJackProcess(g) ==
    [main_node |-> g, input_buffers |-> 0, process_calls |-> 0,
     callbacks |-> 0, output_buffers |-> NoBlock, out_ports |-> NoBlock,
     control |-> "none"]

\* the state the closure of run() captured; no stream exists
NoCpalClosure ==
    [node |-> NoGraph, sample_counter |-> 0, graph_block_size |-> 0,
     process_calls |-> 0, output |-> <<>>, delivered |-> 0, frames |-> <<>>]
\* the closure as run() builds it, after its first node.process
NewCpalClosure(g) ==
    [node |-> g, sample_counter |-> 0, graph_block_size |-> g.block_size,
     process_calls |-> 1, output |-> <<>>, delivered |-> 0, frames |-> <<>>]

\* JackBackend::stop handing the deactivated client back to the backend
jack_stop_restart(c, d) ==
    IF c = "Active"
    THEN IF d # "run_fails"
         THEN [client |-> "Passive", ret |-> "Ok"]
         ELSE [client |-> "None", ret |-> "panic"]
    ELSE [client |-> "None", ret |-> "BackendNotRunning"]

\* JackBackend::start_processing: self.client after the call and the result.
\* to_node().unwrap() comes first; self.client.take() empties the Option and
\* only the Passive arm puts a client back.
jack_start_processing(c, g, d) ==
    IF ~g.to_node_ok
    THEN [client |-> c, ret |-> "panic"]
    ELSE IF c = "Passive"
         THEN IF g.num_inputs + g.num_outputs > 0 /\ d = "setup_fails"
              THEN [client |-> "None", ret |-> "JackError"]
              ELSE IF d = "run_fails"
                   THEN [client |-> "None", ret |-> "panic"]
                   ELSE [client |-> "Active", ret |-> "Ok"]
         ELSE [client |-> "None", ret |-> "BackendAlreadyRunning"]

\* JackBackend::stop: self.client.take(), then deactivate().unwrap()
jack_stop(c, d) ==
    IF c = "Active"
    THEN IF d # "run_fails"
         THEN [client |-> "None", ret |-> "Ok"]
         ELSE [client |-> "None", ret |-> "panic"]
    ELSE [client |-> "None", ret |-> "BackendNotRunning"]

\* CpalBackend::start_processing building a second stream on a Running backend
cpal_start_processing_restart(st, g, chans, d) ==
    IF ~g.to_node_ok
    THEN [stream |-> st, ret |-> "CouldNotCreateNode", processed |-> FALSE]
    ELSE IF g.num_outputs # chans
         THEN [stream |-> st, ret |-> "panic", processed |-> FALSE]
         ELSE IF d = "setup_fails"
              THEN [stream |-> st, ret |-> "CpalBuildStreamError", processed |-> TRUE]
              ELSE IF d = "run_fails"
                   THEN [stream |-> st, ret |-> "CpalPlayStreamError", processed |-> TRUE]
                   ELSE [stream |-> "Some", ret |-> "Ok", processed |-> TRUE]

\* CpalBackend::start_processing with run(): self.stream after the call, the
\* result, and whether run() reached its node.process
cpal_start_processing(st, g, chans, d) ==
    IF st = "Some"
    THEN [stream |-> st, ret |-> "BackendAlreadyRunning", processed |-> FALSE]
    ELSE IF ~g.to_node_ok
         THEN [stream |-> st, ret |-> "CouldNotCreateNode", processed |-> FALSE]
         ELSE IF g.num_outputs # chans
              THEN [stream |-> st, ret |-> "panic", processed |-> FALSE]
              ELSE IF d = "setup_fails"
                   THEN [stream |-> st, ret |-> "CpalBuildStreamError", processed |-> TRUE]
                   ELSE IF d = "run_fails"
                        THEN [stream |-> st, ret |-> "CpalPlayStreamError", processed |-> TRUE]
                        ELSE [stream |-> "Some", ret |-> "Ok", processed |-> TRUE]

\* CpalBackend::stop: todo!()
cpal_stop(st) == [stream |-> st, ret |-> "panic"]

\* processed: the call itself invoked Node::process
BeCall(op, before, g, d, ret, processed) ==
    [op |-> op, before |-> before, graph |-> g, driver |-> d, ret |-> ret,
     processed |-> processed, value |-> 0]

\* a call of a getter: ret is "usize", "Some" or "None", value the number
BeGet(op, before, ret, value) ==
    [op |-> op, before |-> before, graph |-> NoGraph, driver |-> "ok", ret |-> ret,
     processed |-> FALSE, value |-> value]

\* the control context calls JackBackend::start_processing(graph, resources);
\* the driver is called only with a Node and a Passive client in hand
JackStartProcessing ==
    /\ ~panicked /\ backend = "jack"
    /\ \E g \in Graphs :
       \E d \in IF g.to_node_ok /\ client = "Passive" THEN Drivers ELSE {"ok"} :
        LET r == jack_start_processing(client, g, d) IN
        /\ client' = r.client
        /\ jack_process' = IF r.ret = "Ok" THEN NewJackProcess(g)
                           ELSE IF r.client = "Active" THEN jack_process
                           ELSE NoJackProcess
        /\ be_call' = BeCall("start_processing", client, g, d, r.ret, FALSE)
        /\ panicked' = (r.ret = "panic")
        /\ UNCHANGED <<backend, be_sample_rate, jack_buffer_size, cpalVars, stopped_ok,
                     resVars, resObs>>

\* the control context calls JackBackend::stop()
JackStop ==
    /\ ~panicked /\ backend = "jack"
    /\ \E d \in IF client = "Active" THEN {"ok", "run_fails"} ELSE {"ok"} :
        LET r == jack_stop(client, d) IN
        /\ client' = r.client
        /\ jack_process' = IF r.client = "Active" THEN jack_process ELSE NoJackProcess
        /\ be_call' = BeCall("stop", client, NoGraph, d, r.ret, FALSE)
        /\ stopped_ok' = (stopped_ok \/ r.ret = "Ok")
        /\ panicked' = (r.ret = "panic")
        /\ UNCHANGED <<backend, be_sample_rate, jack_buffer_size, cpalVars, resVars, resObs>>

\* JACK calls JackProcess::process for one period of jack_buffer_size frames.
\* The period's hardware input is named by the number of the callback; the
\* ports' slices hold jack_buffer_size frames, the Node's buffers block_size,
\* and clone_from_slice panics when the two slices differ in length.
JackProcessCallback ==
    /\ ~panicked /\ backend = "jack"
    /\ client = "Active"
    /\ jack_process.process_calls < MaxCalls
    /\ LET p == jack_process
           n == p.main_node
           fits == n.block_size = jack_buffer_size
           hw_in == p.callbacks + 1
           in_buf == IF n.num_inputs > 0 THEN hw_in ELSE p.input_buffers
           out == Block(p.process_calls + 1, in_buf)
       IN
       IF n.num_inputs > 0 /\ ~fits
       THEN /\ jack_process' = [p EXCEPT !.callbacks = @ + 1,
                                         !.control = "panic"]
            /\ panicked' = TRUE
       ELSE IF n.num_outputs > 0 /\ ~fits
            THEN /\ jack_process' = [p EXCEPT !.callbacks = @ + 1,
                                              !.input_buffers = in_buf,
                                              !.process_calls = @ + 1,
                                              !.output_buffers = out,
                                              !.control = "panic"]
                 /\ panicked' = TRUE
            ELSE /\ jack_process' = [p EXCEPT !.callbacks = @ + 1,
                                              !.input_buffers = in_buf,
                                              !.process_calls = @ + 1,
                                              !.output_buffers = out,
                                              !.out_ports = out,
                                              !.control = "Continue"]
                 /\ UNCHANGED panicked
    /\ UNCHANGED <<backend, be_sample_rate, client, jack_buffer_size, cpalVars,
                   be_call, stopped_ok, resVars, resObs>>

\* the control context calls CpalBackend::start_processing(graph, resources);
\* the driver is called only when run() is reached
CpalStartProcessing ==
    /\ ~panicked /\ backend = "cpal"
    /\ \E g \in Graphs :
       \E d \in IF stream = "None" /\ g.to_node_ok /\ g.num_outputs = channels
                THEN Drivers ELSE {"ok"} :
        LET r == cpal_start_processing(stream, g, channels, d) IN
        /\ stream' = r.stream
        /\ cpal_closure' = IF r.ret = "Ok" THEN NewCpalClosure(g)
                           ELSE cpal_closure
        /\ be_call' = BeCall("start_processing", stream, g, d, r.ret, r.processed)
        /\ panicked' = (r.ret = "panic")
        /\ UNCHANGED <<backend, be_sample_rate, jackVars, channels, stopped_ok,
                     resVars, resObs>>

\* the control context calls CpalBackend::stop()
CpalStop ==
    /\ ~panicked /\ backend = "cpal"
    /\ LET r == cpal_stop(stream) IN
        /\ stream' = r.stream
        /\ be_call' = BeCall("stop", stream, NoGraph, "ok", r.ret, FALSE)
        /\ stopped_ok' = (stopped_ok \/ r.ret = "Ok")
        /\ panicked' = (r.ret = "panic")
        /\ UNCHANGED <<backend, be_sample_rate, jackVars, channels, cpal_closure,
                     resVars, resObs>>

\* the frames of one output callback: output.chunks_mut(channels) of a slice
\* of len samples, the last chunk possibly short
NumFrames(len, chans) == (len + chans - 1) \div chans

\* output.chunks_mut(channels): the length of each frame of a slice of len
\* samples; `frame.iter_mut().enumerate()` yields channel_i in 0 .. length - 1
chunks_mut(len, chans) ==
    [k \in 1..NumFrames(len, chans) |->
        IF k * chans <= len THEN chans ELSE len - (k - 1) * chans]

\* the loop calling process on refill without sample_counter = 0
RECURSIVE cpal_frames_keep_counter(_, _)
cpal_frames_keep_counter(c, frames) ==
    IF frames = 0
    THEN c
    ELSE LET refill == c.sample_counter >= c.graph_block_size
             calls == IF refill THEN c.process_calls + 1 ELSE c.process_calls
             counter == c.sample_counter
         IN cpal_frames_keep_counter([c EXCEPT !.process_calls = calls,
                                               !.sample_counter = counter + 1,
                                               !.output = Append(@, <<calls, counter>>),
                                               !.delivered = @ + 1],
                                     frames - 1)

\* the loop with the refill test off by one: sample_counter > graph_block_size
RECURSIVE cpal_frames_late(_, _)
cpal_frames_late(c, frames) ==
    IF frames = 0
    THEN c
    ELSE LET refill == c.sample_counter > c.graph_block_size
             calls == IF refill THEN c.process_calls + 1 ELSE c.process_calls
             counter == IF refill THEN 0 ELSE c.sample_counter
         IN cpal_frames_late([c EXCEPT !.process_calls = calls,
                                       !.sample_counter = counter + 1,
                                       !.output = Append(@, <<calls, counter>>),
                                       !.delivered = @ + 1],
                             frames - 1)

\* the loop of the output callback over `frames` frames: the closure after it.
\* Each frame appends the <<process call, sample_counter>> it read to `output`
\* and is counted in `delivered`.
RECURSIVE cpal_frames(_, _)
cpal_frames(c, frames) ==
    IF frames = 0
    THEN c
    ELSE LET refill == c.sample_counter >= c.graph_block_size
             calls == IF refill THEN c.process_calls + 1 ELSE c.process_calls
             counter == IF refill THEN 0 ELSE c.sample_counter
         IN cpal_frames([c EXCEPT !.process_calls = calls,
                                  !.sample_counter = counter + 1,
                                  !.output = Append(@, <<calls, counter>>),
                                  !.delivered = @ + 1],
                        frames - 1)

\* CPAL calls the output callback with a slice of len samples
CpalCallback ==
    /\ ~panicked /\ backend = "cpal"
    /\ stream = "Some"
    /\ cpal_closure.process_calls < MaxCalls
    /\ \E len \in 1..MaxHwLen :
        cpal_closure' = [cpal_frames([cpal_closure EXCEPT !.output = <<>>],
                                     NumFrames(len, channels))
                         EXCEPT !.frames = chunks_mut(len, channels)]
    /\ UNCHANGED <<backend, be_sample_rate, jackVars, stream, channels, be_call,
                   stopped_ok, panicked, resVars, resObs>>

\* AudioBackend::sample_rate of either backend: self.sample_rate
sample_rate(rate) == [ret |-> "usize", value |-> rate]

\* JackBackend::block_size: Some(self.block_size)
jack_block_size(size) == [ret |-> "Some", value |-> size]

\* CpalBackend::block_size: None
cpal_block_size == [ret |-> "None", value |-> 0]

\* the control context calls sample_rate() on the backend
SampleRate ==
    /\ ~panicked /\ backend \in {"jack", "cpal"}
    /\ LET r == sample_rate(be_sample_rate) IN
        be_call' = BeGet("sample_rate", IF backend = "jack" THEN client ELSE stream,
                         r.ret, r.value)
    /\ UNCHANGED <<backend, be_sample_rate, jackVars, cpalVars, stopped_ok, panicked,
                   resVars, resObs>>

\* the control context calls block_size() on the backend
BlockSize ==
    /\ ~panicked /\ backend \in {"jack", "cpal"}
    /\ LET r == IF backend = "jack" THEN jack_block_size(jack_buffer_size)
                ELSE cpal_block_size IN
        be_call' = BeGet("block_size", IF backend = "jack" THEN client ELSE stream,
                         r.ret, r.value)
    /\ UNCHANGED <<backend, be_sample_rate, jackVars, cpalVars, stopped_ok, panicked,
                   resVars, resObs>>

vars == <<buffers, user_data, lookup_tables, resources_sample_rate, freq_to_phase_inc,
          res_call, prev_call, pre_buffers, live,
          pushed,
          backend, be_sample_rate, client, jack_buffer_size, jack_process, stream, channels,
          cpal_closure, be_call, stopped_ok, panicked>>

\* Resources::new(sample_rate)
NewResources(rate) ==
    /\ buffers = new_buffers
    /\ user_data = new_user_data
    /\ lookup_tables = new_lookup_tables
    /\ resources_sample_rate = rate
    /\ freq_to_phase_inc = new_freq_to_phase_inc(rate)
    /\ pushed = [k \in Keys |-> NoData]
    /\ res_call = ResCall("new", 0, None, 0, NoRet)
    /\ prev_call = ResCall("new", 0, None, 0, NoRet)
    /\ pre_buffers = new_buffers
    /\ live = [i \in Slots |-> None]

\* a program that has built a Resources and no backend
InitResources ==
    /\ \E rate \in SampleRates : NewResources(rate)
    /\ backend = "none"
    /\ be_sample_rate = 1
    /\ client = "None"
    /\ jack_buffer_size = 1
    /\ jack_process = NoJackProcess
    /\ stream = "None"
    /\ channels = 1
    /\ cpal_closure = NoCpalClosure
    /\ be_call = BeCall("new", "None", NoGraph, "ok", "Ok", FALSE)
    /\ stopped_ok = FALSE
    /\ panicked = FALSE

\* a program that has built a Resources and one backend, with
\* JackBackend::new (client: Some(Passive)) or CpalBackend::new (stream: None)
InitBackend ==
    /\ backend \in {"jack", "cpal"}
    /\ be_sample_rate \in SampleRates
    /\ NewResources(be_sample_rate)
    /\ client = IF backend = "jack" THEN "Passive" ELSE "None"
    /\ jack_buffer_size \in 1..MaxBlock
    /\ jack_process = NoJackProcess
    /\ stream = "None"
    /\ channels \in 1..MaxChannels
    /\ cpal_closure = NoCpalClosure
    /\ be_call = BeCall("new", "None", NoGraph, "ok", "Ok", FALSE)
    /\ stopped_ok = FALSE
    /\ panicked = FALSE

NextResources ==
    \/ PushBuffer
    \/ RemoveBuffer
    \/ BufRateScale

NextUserData ==
    \/ PushUserData
    \/ GetUserData

NextBackend ==
    \/ JackStartProcessing
    \/ JackStop
    \/ JackProcessCallback
    \/ CpalStartProcessing
    \/ CpalStop
    \/ CpalCallback
    \/ SampleRate
    \/ BlockSize

\* one Resources value and the calls made on it
SpecResources == InitResources /\ [][NextResources]_vars

\* one Resources value and the calls made on its user data
SpecUserData == InitResources /\ [][NextUserData]_vars

\* one Resources value and every call the control context can make on it
SpecResourcesAll == InitResources /\ [][NextResources \/ NextUserData]_vars

\* one backend, the control calls made on it and its audio callbacks
SpecBackend == InitBackend /\ [][NextBackend]_vars

(***************************************************************************)
(* Properties of the backend lifecycle, checked under SpecBackend.         *)
(***************************************************************************)
\* the backend holds an active client / a playing stream
Running == IF backend = "jack" THEN client = "Active" ELSE stream = "Some"
\* the backend is as its constructor left it
Created == IF backend = "jack" THEN client = "Passive"
           ELSE stream = "None" /\ ~stopped_ok
\* the last control call found the backend Running / Created
BeforeRunning == be_call.before = (IF backend = "jack" THEN "Active" ELSE "Some")
BeforeCreated == be_call.before = (IF backend = "jack" THEN "Passive" ELSE "None")
IsStart(c) == c.op = "start_processing"
IsStop(c) == c.op = "stop"

\* C1: start_processing on a backend that is already Running returns
\* BackendAlreadyRunning and leaves the running state unaffected: the backend
\* still holds its active client/stream (the audio callback is still invoked,
\* a following stop still finds the backend Running). Stated for a graph that
\* compiles.
C1_StartOnRunningKeepsRunning ==
    (IsStart(be_call) /\ BeforeRunning /\ be_call.graph.to_node_ok) =>
        /\ be_call.ret = "BackendAlreadyRunning"
        /\ Running

\* C2: stop on a backend that is not active (Created, or already Stopped)
\* returns BackendNotRunning; stop on a Running backend returns Ok and the
\* backend is no longer Running. Stated for calls whose driver calls succeed.
C2_StopResult ==
    (IsStop(be_call) /\ DriverOk(be_call.driver)) =>
        IF BeforeRunning
        THEN be_call.ret = "Ok" /\ ~Running
        ELSE be_call.ret = "BackendNotRunning"

\* C3: the lifecycle is one-way Created -> Running -> Stopped: Running is only
\* entered from Created, a backend on which stop has returned Ok is never
\* Running again, and start_processing after a successful stop fails.
C3_LifecycleOneWay ==
    /\ [][(Running' /\ ~Running) => Created]_vars
    /\ [](stopped_ok => ~Running)
    /\ []((stopped_ok /\ IsStart(be_call)) => be_call.ret # "Ok")

\* C3 happens: after a successful stop, start_processing with a graph that
\* compiles and a driver that works was refused
C3_Witness ==
    /\ stopped_ok /\ IsStart(be_call)
    /\ be_call.graph.to_node_ok /\ DriverOk(be_call.driver)
    /\ be_call.ret = "BackendAlreadyRunning"
    /\ ~Running /\ ~panicked

\* C4: start_processing on a Created backend with a graph that cannot be
\* turned into a compatible node (to_node fails, or the node's output count
\* differs from the device's channel count) returns CouldNotCreateNode and
\* does not panic.
C4_BadGraphIsCouldNotCreateNode ==
    (/\ IsStart(be_call) /\ BeforeCreated
     /\ \/ ~be_call.graph.to_node_ok
        \/ backend = "cpal" /\ be_call.graph.num_outputs # channels) =>
        /\ be_call.ret = "CouldNotCreateNode"
        /\ ~panicked

(***************************************************************************)
(* Properties of the audio callbacks, checked under SpecBackend.           *)
(***************************************************************************)
\* this step is one JackProcess::process callback
JackCallbackStep ==
    backend = "jack" /\ jack_process'.callbacks = jack_process.callbacks + 1
\* this step is one CPAL output callback
CpalCallbackStep ==
    backend = "cpal" /\ stream = "Some" /\ cpal_closure' # cpal_closure
\* the n-th frame (from 0) of the concatenation of the blocks of block_size
\* samples that successive process calls produce: <<process call, sample index>>
FrameOfStream(n, block_size) == <<(n \div block_size) + 1, n % block_size>>
\* the process calls needed to deliver n frames; run() makes the first one
CallsFor(n, block_size) == IF n = 0 THEN 1 ELSE ((n - 1) \div block_size) + 1

\* C11: in every backend a callback runs to completion also when the hardware
\* period differs from the Node's block size: it does not abort (panic), and
\* it fills the whole hardware output with Node output (JACK: the out ports
\* hold the block just processed and Continue is returned; CPAL: one frame is
\* written for every frame of the slice).
C11_CallbackCompletes ==
    [][ /\ (JackCallbackStep
              /\ jack_process.main_node.block_size # jack_buffer_size) =>
                /\ ~panicked'
                /\ jack_process'.control = "Continue"
                /\ jack_process'.out_ports = jack_process'.output_buffers
                /\ jack_process'.out_ports.call = jack_process.process_calls + 1
        /\ CpalCallbackStep =>
                /\ ~panicked'
                /\ cpal_closure'.delivered - cpal_closure.delivered
                     = Len(cpal_closure'.output) ]_vars

\* C12: in the CPAL bridge the frames written to the hardware are the
\* concatenation of the successive blocks Node::process produced, each sample
\* index of each block once and in order, across callbacks of any frame
\* count; process has been invoked exactly as often as the frames delivered
\* so far need a block (it is re-invoked only once the current block is
\* consumed).
C12_CpalStreamIsConcatenation ==
    (backend = "cpal" /\ stream = "Some") =>
        LET c == cpal_closure
            first == c.delivered - Len(c.output)
        IN /\ first >= 0
           /\ \A k \in 1..Len(c.output) :
                 c.output[k] = FrameOfStream(first + k - 1, c.graph_block_size)
           /\ c.process_calls = CallsFor(c.delivered, c.graph_block_size)

\* C12 happens: a callback of two frames began in the middle of the first
\* block of two samples and went on into the second block
C12_Witness ==
    /\ backend = "cpal" /\ stream = "Some"
    /\ cpal_closure.graph_block_size = 2
    /\ cpal_closure.output = <<<<1, 1>>, <<2, 0>>>>
    /\ cpal_closure.delivered = 3

\* C21: at every read buffer[channel_i][sample_counter] of the CPAL callback
\* the sample counter is at least 0 and below the block size and the channel
\* index is below the Node's number of outputs, whatever the lengths of the
\* hardware slices (a last frame shorter than the channel count included),
\* and between frames the counter is at most the block size.
C21_CpalReadsInBounds ==
    (backend = "cpal" /\ stream = "Some") =>
        LET c == cpal_closure IN
        /\ \A k \in 1..Len(c.output) :
              0 <= c.output[k][2] /\ c.output[k][2] < c.graph_block_size
        /\ \A k \in 1..Len(c.frames) :
              \A channel_i \in 0..(c.frames[k] - 1) : channel_i < c.node.num_outputs
        /\ 0 <= c.sample_counter /\ c.sample_counter <= c.graph_block_size
\* a slice of three samples on two channels: a full frame and a short one,
\* with a refill between them, the counter left at the block size
C21_Witness ==
    /\ backend = "cpal" /\ stream = "Some" /\ channels = 2
    /\ cpal_closure.frames = <<2, 1>>
    /\ cpal_closure.graph_block_size = 1
    /\ cpal_closure.output = <<<<2, 0>>, <<3, 0>>>>
    /\ cpal_closure.sample_counter = cpal_closure.graph_block_size

\* C13: Node::process is invoked only while the backend is Running: a
\* start_processing call that returns an error has not invoked process, and
\* after stop has returned Ok process is not invoked again.
C13_ProcessOnlyWhileRunning ==
    [][ /\ (IsStart(be_call') /\ be_call'.ret \notin {"Ok", "panic"}) =>
              ~be_call'.processed
        /\ stopped_ok =>
              /\ jack_process'.process_calls = jack_process.process_calls
              /\ cpal_closure'.process_calls = cpal_closure.process_calls
              /\ ~be_call'.processed ]_vars

\* the step is one audio callback on the Node the context already holds
AudioCallbackStep ==
    /\ be_call' = be_call
    /\ IF backend = "jack"
       THEN /\ jack_process'.main_node = jack_process.main_node
            /\ jack_process'.callbacks = jack_process.callbacks + 1
       ELSE /\ cpal_closure'.node = cpal_closure.node
            /\ cpal_closure'.delivered > cpal_closure.delivered
            /\ cpal_closure'.process_calls >= cpal_closure.process_calls

C16_JackCallbackOrder ==
    [][ JackCallbackStep =>
          LET p == jack_process
              q == jack_process'
          IN /\ p.main_node.num_inputs > 0 => q.input_buffers = q.callbacks
             /\ q.process_calls = p.process_calls + 1
             /\ q.output_buffers = Block(q.process_calls, q.input_buffers)
             /\ q.out_ports = q.output_buffers
             /\ q.control = "Continue"
             /\ ~panicked' ]_vars

\* C20: a start_processing or stop that returned an error left the backend's
\* lifecycle state (its client, its stream) as the call found it, so a
\* Created backend is still Created and can be started.
C20_ErrorLeavesLifecycle ==
    ((IsStart(be_call) \/ IsStop(be_call)) /\ be_call.ret \notin {"Ok", "panic"}) =>
        (IF backend = "jack" THEN client ELSE stream) = be_call.before

(***************************************************************************)
(* Properties of a new Resources and of its user data.                     *)
(***************************************************************************)
IsPushUserData(c) == c.op = "push_user_data"
IsGetUserData(c) == c.op = "get_user_data"

\* C15: get_user_data(k) returns the data of the latest push_user_data for k
\* and None for a key never pushed, and a push_user_data for k leaves the
\* value stored under every other key as it was.
C15_UserDataLastWriterWins ==
    [][ /\ IsGetUserData(res_call') /\ res_call' # res_call =>
              res_call'.ret = (IF pushed[res_call'.key] = NoData THEN RetNone
                               ELSE RetSomeData(pushed[res_call'.key]))
        /\ user_data' # user_data =>
              /\ IsPushUserData(res_call')
              /\ user_data'[res_call'.key] = res_call'.data
              /\ \A k \in Keys \ {res_call'.key} : user_data'[k] = user_data[k] ]_vars
\* a key pushed twice with different data was read back, with the other key
\* holding data of its own
C15_Witness ==
    /\ IsGetUserData(res_call) /\ IsPushUserData(prev_call)
    /\ res_call.key = "k1" /\ prev_call.key = "k1"
    /\ res_call.ret = RetSomeData(2) /\ prev_call.data = 2
    /\ user_data["k2"] = 1

\* the table Resources::new computes for a variant of StandardWt
TableOf(wt) == IF wt = FastSine THEN "fast_sine_table" ELSE "fast_sine_diff_table"
\* the number of buffer slots holding a buffer
Occupied(bufs) == Cardinality({i \in DOMAIN bufs : bufs[i] # None})

\* C17: the slot array has the length Resources::new gave it after every
\* call of push_buffer, remove_buffer, buf_rate_scale, push_user_data and
\* get_user_data, every slot is empty after new, and the occupied slots
\* never outnumber the slots.
C17_SlotCountIsFixed ==
    /\ DOMAIN buffers = Slots
    /\ DOMAIN pre_buffers = Slots
    /\ Occupied(buffers) <= NumSlots
    /\ res_call.op = "new" => \A i \in Slots : buffers[i] = None
\* the pool is full and a user-data call came after the push that filled it
C17_Witness ==
    /\ Occupied(buffers) = NumSlots
    /\ IsPushUserData(res_call)
    /\ prev_call.op = "push_buffer" /\ prev_call.ret.tag = "Err"

\* C18: lookup_tables holds one table per variant of StandardWt other than
\* Last, the table of a variant at the position of the variant's value.
C18_LookupTablesByVariant ==
    /\ Len(lookup_tables) = Last
    /\ \A wt \in {FastSine, FastSineDiff} : lookup_tables[wt + 1] = TableOf(wt)
\* a Resources in use whose two tables differ
C18_Witness ==
    /\ res_call.op # "new"
    /\ Len(lookup_tables) = 2
    /\ lookup_tables[1] # lookup_tables[2]

(***************************************************************************)
(* Properties of the buffer pool, checked under SpecResources.             *)
(***************************************************************************)
IsPush(c) == c.op = "push_buffer"
IsPushOk(c) == c.op = "push_buffer" /\ c.ret.tag = "Ok"
IsRemove(c) == c.op = "remove_buffer"
IsRateScale(c) == c.op = "buf_rate_scale"
Full(bufs) == \A i \in Slots : bufs[i] # None

\* every live index refers to a slot holding the buffer pushed for it
LiveIndexPopulated == \A i \in Slots : live[i] # None => buffers[i] = live[i]

\* C5: after any sequence of push_buffer and remove_buffer calls every live
\* index (returned by a successful push_buffer, not yet removed) refers to a
\* populated slot holding exactly the buffer pushed for it, and push_buffer
\* never returns an index that another live buffer occupies.
C5_LiveIndexHoldsPushedBuffer ==
    /\ LiveIndexPopulated
    /\ [][ /\ LiveIndexPopulated'
           /\ IsPushOk(res_call') =>
                /\ live[res_call'.ret.index] = None
                /\ buffers[res_call'.ret.index] = None
                /\ buffers'[res_call'.ret.index] = res_call'.buf
                /\ \A j \in Slots \ {res_call'.ret.index} :
                      live[j] # None => buffers'[j] = live[j] ]_vars

\* C5 happens: a push reuses the freed middle slot while both neighbours are live
C5_Witness ==
    /\ IsPushOk(res_call) /\ res_call.ret.index = 1
    /\ pre_buffers[0] # None /\ pre_buffers[2] # None
    /\ live[0] # None /\ live[1] = res_call.buf /\ live[2] # None
    /\ live[0] # live[1]

\* C6: whenever a slot is free push_buffer succeeds and returns the lowest
\* free index (the slot at the returned index was empty, every slot below it
\* occupied); a push right after remove_buffer(i) freed slot i returns an
\* index not greater than i.
C6_PushPicksLowestFreeIndex ==
    [][ IsPush(res_call') =>
          /\ ~Full(buffers) =>
                /\ res_call'.ret.tag = "Ok"
                /\ buffers[res_call'.ret.index] = None
                /\ \A j \in Slots : j < res_call'.ret.index => buffers[j] # None
          /\ (IsRemove(res_call) /\ res_call.ret.tag = "Some") =>
                /\ res_call'.ret.tag = "Ok"
                /\ res_call'.ret.index <= res_call.index ]_vars

\* C6 happens: slot 0 was freed by remove_buffer(0) while slot 2 is free too,
\* and the push returned 0
C6_Witness ==
    /\ IsPushOk(res_call) /\ res_call.ret.index = 0
    /\ IsRemove(prev_call) /\ prev_call.index = 0 /\ prev_call.ret.tag = "Some"
    /\ pre_buffers[0] = None /\ pre_buffers[1] # None /\ pre_buffers[2] = None

\* C7: push_buffer(buf) returning Ok(i) followed immediately by
\* remove_buffer(i) returns Some of a buffer equal to buf and leaves the slot
\* array as it was before the push.
C7_PushRemoveRoundTrip ==
    [][ (IsPushOk(res_call) /\ IsRemove(res_call')
            /\ res_call'.index = res_call.ret.index) =>
          /\ res_call'.ret = RetSome(res_call.buf)
          /\ buffers' = pre_buffers ]_vars

\* C7 happens: a push into a pool holding another buffer, then the removal of
\* the returned index
C7_Witness ==
    /\ IsPushOk(prev_call) /\ IsRemove(res_call)
    /\ res_call.index = prev_call.ret.index
    /\ res_call.ret.tag = "Some"
    /\ res_call.index = 1 /\ buffers[0] # None /\ buffers[0] # res_call.ret.buf

\* C8: push_buffer fails exactly when no slot is free; the Err carries the
\* buffer passed in, unchanged, and the pool is unchanged; a successful push
\* writes an empty slot and leaves every other slot as it was.
C8_PushFailsExactlyWhenFull ==
    [][ IsPush(res_call') =>
          /\ res_call'.ret.tag \in {"Ok", "Err"}
          /\ (res_call'.ret.tag = "Err") <=> Full(buffers)
          /\ res_call'.ret.tag = "Err" =>
                /\ res_call'.ret.buf = res_call'.buf
                /\ buffers' = buffers
          /\ res_call'.ret.tag = "Ok" =>
                /\ buffers[res_call'.ret.index] = None
                /\ \A j \in Slots \ {res_call'.ret.index} : buffers'[j] = buffers[j] ]_vars

\* C8 happens: a push on a full pool came back as Err with its buffer
C8_Witness ==
    /\ IsPush(res_call) /\ res_call.ret.tag = "Err"
    /\ res_call.ret.buf = res_call.buf
    /\ Full(pre_buffers) /\ buffers = pre_buffers
    /\ \E i \in Slots : buffers[i] # res_call.buf

\* C9: remove_buffer on an index whose slot is empty (never filled, or already
\* removed) returns None, does not panic and changes nothing; calling
\* remove_buffer(i) twice in a row returns None the second time and leaves the
\* state as it was after the first call.
C9_RemoveAbsentIsNone ==
    [][ (IsRemove(res_call') /\ res_call'.index \in Slots) =>
          /\ buffers[res_call'.index] = None =>
                /\ res_call'.ret = RetNone
                /\ buffers' = buffers
                /\ ~panicked'
          /\ (IsRemove(res_call) /\ res_call.index = res_call'.index) =>
                /\ res_call'.ret = RetNone
                /\ buffers' = buffers
                /\ ~panicked' ]_vars

\* C9 happens: the second of two remove_buffer(i) in a row, the first of which
\* took a buffer out
C9_Witness ==
    /\ IsRemove(prev_call) /\ prev_call.ret.tag = "Some"
    /\ IsRemove(res_call) /\ res_call.index = prev_call.index
    /\ res_call.ret.tag = "None"
    /\ \E i \in Slots : buffers[i] # None

\* C10: buf_rate_scale(index, sample_rate) returns exactly 1.0 for every index
\* of the slot array at which no buffer is present, for every requested
\* sample_rate, and never modifies the state of the Resources.
C10_RateScaleAbsentIsOne ==
    [][ IsRateScale(res_call') =>
          /\ buffers' = buffers
          /\ (res_call'.index \in Slots /\ buffers[res_call'.index] = None) =>
                res_call'.ret = RetF64(One) ]_vars

\* C10 happens: 1.0 came back for an empty slot and a requested rate that no
\* buffer rate of 1 would scale to 1.0, while another slot holds a buffer
C10_Witness ==
    /\ IsRateScale(res_call) /\ res_call.index \in Slots
    /\ buffers[res_call.index] = None
    /\ res_call.sample_rate = 2
    /\ res_call.ret = RetF64(One)
    /\ \E i \in Slots : buffers[i] # None

\* the slot a push_buffer / remove_buffer call may write: the index returned
\* by a successful push, the index given to remove; no slot for a failed push
TouchedSlots(c) ==
    IF IsPushOk(c) THEN {c.ret.index}
    ELSE IF IsRemove(c) THEN {c.index}
    ELSE {}

\* C22: push_buffer and remove_buffer change at most the slot at the index
\* returned / given and leave every other slot, the user data, sample_rate,
\* freq_to_phase_inc and the lookup tables as they were; push_user_data and
\* get_user_data leave every buffer slot and sample_rate as they were.
C22_OperationsAreLocal ==
    [][ /\ (IsPush(res_call') \/ IsRemove(res_call')) =>
              /\ \A i \in Slots \ TouchedSlots(res_call') : buffers'[i] = buffers[i]
              /\ DOMAIN buffers' = DOMAIN buffers
              /\ UNCHANGED <<user_data, resources_sample_rate, freq_to_phase_inc,
                             lookup_tables>>
        /\ (IsPushUserData(res_call') \/ IsGetUserData(res_call')) =>
              UNCHANGED <<buffers, resources_sample_rate>> ]_vars
\* the buffer of the middle slot was removed from a full pool of a Resources
\* that holds user data
C22_Witness ==
    /\ IsRemove(res_call) /\ res_call.index = 1 /\ res_call.ret.tag = "Some"
    /\ buffers[0] # None /\ buffers[1] = None /\ buffers[2] # None
    /\ user_data["k1"] # NoData
    /\ resources_sample_rate = 2

\* C19: for an index outside the slot array remove_buffer returns None and
\* buf_rate_scale returns 1.0, as for any other index that holds no buffer.
C19_OutOfRangeIsAbsent ==
    (res_call.index \notin Slots) =>
        /\ IsRemove(res_call) => res_call.ret = RetNone
        /\ IsRateScale(res_call) => res_call.ret = RetF64(One)

=============================================================================
